---------------------------- MODULE Spec2Model ----------------------------
(***************************************************************************)
(* Model of fastapi_timeout/middleware.py: the three entry points that     *)
(* race a unit of work against asyncio.wait_for's deadline                 *)
(*   TimeoutMiddleware            (ASGI class, lines 10-113)               *)
(*   timeout_middleware           (function style, lines 117-199)          *)
(*   timeout / endpoint_timeout   (per-endpoint decorator, lines 203-308)  *)
(* together with the environment they run in: the registration code, the   *)
(* downstream ASGI application (router and endpoint), the send channel and *)
(* the event loop's clock.                                                 *)
(*                                                                         *)
(* Time is counted in whole clock ticks (seconds).  A measured elapsed     *)
(* time (time.time() - start_time) is kept in units of 1/10 millisecond so *)
(* that round(process_time, 3) is a real conversion.                       *)
(***************************************************************************)
EXTENDS Integers, Sequences, FiniteSets, TLC

\* ----------------------------------------------------------------- bounds
\* The clock's horizon: the last tick a request is followed to.
MaxTime == 3
\* The largest timeout_seconds a registration is given.
MaxDuration == 2
\* The most positional arguments an endpoint is called with.
MaxArgs == 2

\* -------------------------------------------------------------- constants
HTTP_504_GATEWAY_TIMEOUT == 504
HTTP_408_REQUEST_TIMEOUT == 408
HTTP_503_SERVICE_UNAVAILABLE == 503
HTTP_200_OK == 200

\* Python's None: where a string is kept, and where an object is kept.
NoneStr == "None"
None == [none |-> TRUE]

\* timeout_seconds is not range-checked: zero and negative values are accepted.
Durations == (0 - 1)..MaxDuration
\* The timeout_status_code and timeout_message a registration is given: the
\* defaults, a 503 with a message of its own, and the rejected 408.
StatusAndMessage ==
    {[status |-> HTTP_504_GATEWAY_TIMEOUT, message |-> "Request processing time exceeded limit"],
     [status |-> HTTP_503_SERVICE_UNAVAILABLE, message |-> "Test timeout"],
     [status |-> HTTP_408_REQUEST_TIMEOUT, message |-> "Request processing time exceeded limit"]}
TimeoutHandlers == {NoneStr, "custom_handler"}

\* One clock tick in the unit of a measured elapsed time (1/10 ms).
UnitsPerTick == 10 * 1000
\* The part of a measured elapsed time below one tick (scheduling latency):
\* nothing, and two exact halves of a millisecond that a binary float holds
\* (0.0625 s, which rounds down to the even 0.062, and 0.1875 s, which rounds
\* up to the even 0.188).
Latencies == {0, 625, 1875}

\* The errors a unit of work raises by itself.  "TimeoutError" is
\* asyncio.TimeoutError raised inside the work (say by a wait_for of its own).
WorkErrors == {"HandlerError", "TimeoutError"}

\* How a unit of work ends once wait_for has cancelled it: it lets the
\* CancelledError through, or it raises an error of its own on the way out.
Cancellations == {"CancelledError", "HandlerError"}

\* The requests in flight: the server runs each in a task of its own.
Requests == {"r1", "r2"}
\* A server that is sent one request at a time.
OneAtATime == {"r1"}

\* The request the server hands to the application.
TheRequest == [path |-> "/test"]

\* Another Request object, and a value that is not a Request (a path
\* parameter), as an endpoint may be called with.
OtherRequest == [path |-> "/other"]
ItemId == [item_id |-> "a1"]
ArgValues == {TheRequest, OtherRequest, ItemId}

\* isinstance(arg, Request)
IsRequest(arg) == "path" \in DOMAIN arg

\* The keyword names an endpoint is called with.
KeywordNames == {"request", "req"}
NoKwargs == [name \in {} |-> TheRequest]

\* wrapper(*args, **kwargs) as it is called.
Arguments(args, kwargs) == [args |-> args, kwargs |-> kwargs]

\* The calls the router makes: it passes an endpoint's parameters by keyword,
\* the Request under the name the endpoint declares it by: as request
\* (upload_endpoint of the examples) or not at all (the endpoints of the tests).
EndpointCalls ==
    {Arguments(<< >>, [name \in {"request"} |-> TheRequest]),
     Arguments(<< >>, NoKwargs)}

\* Every call with up to MaxArgs positional arguments and Requests under any
\* of the keyword names.
AllCalls ==
    {Arguments(args, kwargs) :
        args \in UNION {[1..n -> ArgValues] : n \in 0..MaxArgs},
        kwargs \in UNION {[names -> {TheRequest, OtherRequest}] : names \in SUBSET KeywordNames}}

\* The scope types the server calls the application with.
ScopeTypes == {"http", "websocket"}

VARIABLES
    phase,          \* "setup" while registrations are made, then "serving"
    middleware,     \* the TimeoutMiddleware instance's fields, or None
    function_mw,    \* the closure of timeout_middleware(...), or None
    decorated,      \* the closure of timeout(...), or None
    setupError,     \* the ValueError that ended the setup, or None
    now,            \* the event loop's clock
    mw,             \* per request: the invocation of TimeoutMiddleware.__call__
    fn,             \* per request: the invocation of _timeout_middleware_function
    dec,            \* per request: the invocation of timeout.decorator.wrapper
    app,            \* per request: the downstream application (router and endpoint)
    sent,           \* per request: the messages passed to send(), in order
    calls           \* per request: the calls of a timeout responder, in order

vars == <<phase, middleware, function_mw, decorated, setupError, now,
          mw, fn, dec, app, sent, calls>>

config == <<phase, middleware, function_mw, decorated, setupError>>

\* ------------------------------------------------------------ the policy
\* The five values every entry point keeps (self.* of TimeoutMiddleware, the
\* closure variables of the other two).
Policy(timeout_seconds, timeout_status_code, timeout_message, include_process_time, custom_timeout_handler) ==
    [timeout_seconds        |-> timeout_seconds,
     timeout_status_code    |-> timeout_status_code,
     timeout_message        |-> timeout_message,
     include_process_time   |-> include_process_time,
     custom_timeout_handler |-> custom_timeout_handler]

\* A guard that tests for the wrong code.
RejectsStatusCode_WrongCode(timeout_status_code) ==
    timeout_status_code = HTTP_504_GATEWAY_TIMEOUT

\* The guard of all three constructors: if timeout_status_code == 408: raise ValueError.
RejectsStatusCode(timeout_status_code) ==
    timeout_status_code = HTTP_408_REQUEST_TIMEOUT

\* The ValueError a constructor raises, with the call that raised it.
ValueError(entry, timeout_status_code) ==
    [entry |-> entry, status |-> timeout_status_code, raised |-> "ValueError"]

\* -------------------------------------------------------------- responses
\* round(process_time, 3): to the nearest millisecond, an exact half to the
\* even millisecond.
Round3(process_time) ==
    LET q == process_time \div 10
        r == process_time % 10
    IN  IF r < 5 THEN 10 * q
        ELSE IF r > 5 THEN 10 * (q + 1)
        ELSE IF q % 2 = 0 THEN 10 * q ELSE 10 * (q + 1)

\* The content dict of the default timeout response.
DefaultContent(p, process_time) ==
    IF p.include_process_time
    THEN [detail          |-> p.timeout_message,
          timeout_seconds |-> p.timeout_seconds,
          processing_time |-> Round3(process_time)]
    ELSE [detail          |-> p.timeout_message,
          timeout_seconds |-> p.timeout_seconds]

\* JSONResponse(content=content, status_code=timeout_status_code)
JSONResponse(content, status_code) ==
    [status |-> status_code, body |-> content]

\* A default response that always carries 504, whatever status was configured.
MiddlewareDefaultResponse_Always504(p, process_time) ==
    JSONResponse(DefaultContent(p, process_time), HTTP_504_GATEWAY_TIMEOUT)

\* TimeoutMiddleware._default_timeout_response
MiddlewareDefaultResponse(p, process_time) ==
    JSONResponse(DefaultContent(p, process_time), p.timeout_status_code)

\* A default response that leaves the configured duration out of its body.
FunctionDefaultResponse_NoDuration(p, process_time) ==
    JSONResponse(IF p.include_process_time
                 THEN [detail          |-> p.timeout_message,
                       processing_time |-> Round3(process_time)]
                 ELSE [detail          |-> p.timeout_message],
                 p.timeout_status_code)

\* The default response _timeout_middleware_function builds in place.
FunctionDefaultResponse(p, process_time) ==
    JSONResponse(IF p.include_process_time
                 THEN [detail          |-> p.timeout_message,
                       timeout_seconds |-> p.timeout_seconds,
                       processing_time |-> Round3(process_time)]
                 ELSE [detail          |-> p.timeout_message,
                       timeout_seconds |-> p.timeout_seconds],
                 p.timeout_status_code)

\* A wrapper that reports the elapsed time whatever include_process_time says.
WrapperDefaultResponse_AlwaysElapsed(p, process_time) ==
    JSONResponse([detail          |-> p.timeout_message,
                  timeout_seconds |-> p.timeout_seconds,
                  processing_time |-> Round3(process_time)],
                 p.timeout_status_code)

\* The default response wrapper builds in place.
WrapperDefaultResponse(p, process_time) ==
    JSONResponse(IF p.include_process_time
                 THEN [detail          |-> p.timeout_message,
                       timeout_seconds |-> p.timeout_seconds,
                       processing_time |-> Round3(process_time)]
                 ELSE [detail          |-> p.timeout_message,
                       timeout_seconds |-> p.timeout_seconds],
                 p.timeout_status_code)

\* The custom handler of the tests: a 503 that reports the path and the time.
CustomHandler(request, process_time) ==
    JSONResponse([error |-> "Custom timeout",
                  path  |-> request.path,
                  time  |-> process_time],
                 HTTP_503_SERVICE_UNAVAILABLE)

\* What a call that raises leaves in place of a response.
Raise(error) == [raised |-> error]

\* custom_timeout_handler(request, process_time): the handler is the caller's
\* code, and a call of it returns its response or raises.
CallHandler(request, process_time, raises) ==
    IF raises
    THEN Raise("ResponderError")
    ELSE CustomHandler(request, process_time)

\* time.time() - start_time, read when the except block runs.
ProcessTime(start_time, latency) ==
    (now - start_time) * UnitsPerTick + latency

\* What an except block did: the responder it called and the response it got.
Responded(responder, response) ==
    [responder |-> responder, response |-> response]

\* An except block that puts the configured status on the custom response.
MiddlewareTimeoutResponse_PolicyStatus(p, request, process_time, raises) ==
    IF p.custom_timeout_handler # NoneStr
    THEN Responded("custom", IF raises
                             THEN Raise("ResponderError")
                             ELSE [CustomHandler(request, process_time)
                                     EXCEPT !.status = p.timeout_status_code])
    ELSE Responded("default", MiddlewareDefaultResponse(p, process_time))

\* The except block of TimeoutMiddleware.__call__: if self.custom_timeout_handler.
MiddlewareTimeoutResponse(p, request, process_time, raises) ==
    IF p.custom_timeout_handler # NoneStr
    THEN Responded("custom", CallHandler(request, process_time, raises))
    ELSE Responded("default", MiddlewareDefaultResponse(p, process_time))

\* The except block of _timeout_middleware_function: if custom_timeout_handler.
FunctionTimeoutResponse(p, request, process_time, raises) ==
    IF p.custom_timeout_handler # NoneStr
    THEN Responded("custom", CallHandler(request, process_time, raises))
    ELSE Responded("default", FunctionDefaultResponse(p, process_time))

\* An except block that falls back to the default response when the custom
\* handler raises.
WrapperTimeoutResponse_FallsBack(p, request, process_time, raises) ==
    IF p.custom_timeout_handler # NoneStr /\ request # None /\ ~ raises
    THEN Responded("custom", CallHandler(request, process_time, raises))
    ELSE Responded("default", WrapperDefaultResponse(p, process_time))

\* The except block of wrapper: if custom_timeout_handler and request.
WrapperTimeoutResponse(p, request, process_time, raises) ==
    IF p.custom_timeout_handler # NoneStr /\ request # None
    THEN Responded("custom", CallHandler(request, process_time, raises))
    ELSE Responded("default", WrapperDefaultResponse(p, process_time))

\* return response / return result: what the work returned goes back as it is.
FunctionResult(response) == response

\* A wrapper that stamps the configured status on what the endpoint returned.
WrapperResult_PolicyStatus(result) ==
    [result EXCEPT !.status = decorated.timeout_status_code]

WrapperResult(result) == result

\* A search that looks at the keyword named request before the positional
\* arguments.
LocateRequest_KeywordFirst(args, kwargs) ==
    LET found == {i \in DOMAIN args : IsRequest(args[i])}
    IN  IF "request" \in DOMAIN kwargs THEN kwargs["request"]
        ELSE IF found # {} THEN args[CHOOSE i \in found : \A j \in found : i <= j]
        ELSE None

\* wrapper's search for the Request: the first positional argument that is a
\* Request, else kwargs.get('request').
LocateRequest(args, kwargs) ==
    LET found == {i \in DOMAIN args : IsRequest(args[i])}
    IN  IF found # {} THEN args[CHOOSE i \in found : \A j \in found : i <= j]
        ELSE IF "request" \in DOMAIN kwargs THEN kwargs["request"]
        ELSE None

\* func(*args, **kwargs): what the wrapped endpoint is called with.
FuncCall(args, kwargs) == Arguments(args, kwargs)

\* What the endpoint returns by itself.
EndpointResults ==
    {JSONResponse([status |-> "done"], HTTP_200_OK),
     JSONResponse([status |-> "created"], HTTP_200_OK + 1)}

\* ------------------------------------------------------------------ state
\* An invocation of one entry point.
\*   pc         "idle", "waiting" (inside await asyncio.wait_for), "forwarding"
\*              (a non-http scope passed through), "timedout" (the except
\*              block is about to run), "returned", "raised", "cancelled"
\*   start_time the clock when start_time = time.time() ran
\*   cause      why the except block was entered: "deadline" (wait_for's own
\*              timer) or "work_error" (the work raised asyncio.TimeoutError)
\*   work       what the work returned to wait_for, or None
\*   ret        what the entry point returned, or None
\*   exc        the error that left the entry point, or None
\*   outcome    "Completed", "Expired", "Forwarded" or None
\*   timer      wait_for's timeout handle: "unset", "armed", "fired", "cancelled"
\*   task       the task wait_for runs the work in: "unset", "running", "done",
\*              "failed", "cancelled"
\*   cancellation  how the work ended once wait_for had cancelled it, or None
\*   call       the arguments a wrapper was called with, or None
\*   func_call  the arguments the wrapper called the endpoint with, or None
Idle ==
    [pc |-> "idle", start_time |-> 0, cause |-> NoneStr, work |-> None,
     ret |-> None, exc |-> NoneStr, outcome |-> NoneStr, request |-> None,
     scope_type |-> NoneStr, timer |-> "unset", task |-> "unset",
     cancellation |-> NoneStr, call |-> None, func_call |-> None]

\* The downstream application.
\*   pc  "idle", "routing" (before the endpoint is called), "endpoint",
\*       "responding" (a response is ready to be sent), "started" (after
\*       http.response.start), "finished" (after the body; background work may
\*       still run), "complete", "failed", "cancelled", "other" (serving a
\*       non-http scope)
AppIdle == [pc |-> "idle", response |-> None, exc |-> NoneStr]

Init ==
    /\ phase = "setup"
    /\ middleware = None
    /\ function_mw = None
    /\ decorated = None
    /\ setupError = None
    /\ now = 0
    /\ mw = [r \in Requests |-> Idle]
    /\ fn = [r \in Requests |-> Idle]
    /\ dec = [r \in Requests |-> Idle]
    /\ app = [r \in Requests |-> AppIdle]
    /\ sent = [r \in Requests |-> << >>]
    /\ calls = [r \in Requests |-> << >>]

request_vars == <<now, mw, fn, dec, app, sent, calls>>

\* ------------------------------------------------------------------ setup
\* TimeoutMiddleware.__init__ (through app.add_middleware)
TimeoutMiddlewareInit(timeout_seconds, timeout_status_code, timeout_message, include_process_time, custom_timeout_handler) ==
    /\ phase = "setup"
    /\ middleware = None
    /\ function_mw = None
    /\ IF RejectsStatusCode(timeout_status_code)
       THEN /\ setupError' = ValueError("TimeoutMiddleware", timeout_status_code)
            /\ phase' = "config_error"
            /\ UNCHANGED middleware
       ELSE /\ middleware' = Policy(timeout_seconds, timeout_status_code, timeout_message,
                                    include_process_time, custom_timeout_handler)
            /\ UNCHANGED <<setupError, phase>>
    /\ UNCHANGED <<function_mw, decorated>>
    /\ UNCHANGED request_vars

\* timeout_middleware(...): validates, then returns middleware_decorator
TimeoutMiddlewareFunction(timeout_seconds, timeout_status_code, timeout_message, include_process_time, custom_timeout_handler) ==
    /\ phase = "setup"
    /\ middleware = None
    /\ function_mw = None
    /\ decorated = None
    /\ IF RejectsStatusCode(timeout_status_code)
       THEN /\ setupError' = ValueError("timeout_middleware", timeout_status_code)
            /\ phase' = "config_error"
            /\ UNCHANGED function_mw
       ELSE /\ function_mw' = Policy(timeout_seconds, timeout_status_code, timeout_message,
                                     include_process_time, custom_timeout_handler)
            /\ UNCHANGED <<setupError, phase>>
    /\ UNCHANGED <<middleware, decorated>>
    /\ UNCHANGED request_vars

\* timeout(...): validates, then returns decorator, which wraps the endpoint
TimeoutDecorator(timeout_seconds, timeout_status_code, timeout_message, include_process_time, custom_timeout_handler) ==
    /\ phase = "setup"
    /\ decorated = None
    /\ function_mw = None
    /\ IF RejectsStatusCode(timeout_status_code)
       THEN /\ setupError' = ValueError("timeout", timeout_status_code)
            /\ phase' = "config_error"
            /\ UNCHANGED decorated
       ELSE /\ decorated' = Policy(timeout_seconds, timeout_status_code, timeout_message,
                                   include_process_time, custom_timeout_handler)
            /\ UNCHANGED <<setupError, phase>>
    /\ UNCHANGED <<middleware, function_mw>>
    /\ UNCHANGED request_vars

\* The application starts to serve once something is registered.
Serve ==
    /\ phase = "setup"
    /\ middleware # None \/ function_mw # None \/ decorated # None
    /\ phase' = "serving"
    /\ UNCHANGED <<middleware, function_mw, decorated, setupError>>
    /\ UNCHANGED request_vars

\* --------------------------------------------------------------- wait_for
\* asyncio.wait_for(work, timeout): the timer is due once timeout has passed
\* since the call; with timeout <= 0 the work is cancelled before it starts.
\* A deadline counted from a start time that all requests share (kept on the
\* instance, so that the request that arrived last sets it for all).
Deadline_SharedStart(inv, p) ==
    LET starts == {mw[r].start_time : r \in {q \in Requests : mw[q].pc # "idle"}}
                    \cup {fn[r].start_time : r \in {q \in Requests : fn[q].pc # "idle"}}
                    \cup {dec[r].start_time : r \in {q \in Requests : dec[q].pc # "idle"}}
                    \cup {inv.start_time}
    IN  (CHOOSE s \in starts : \A t \in starts : t <= s) + p.timeout_seconds

Deadline(inv, p) == inv.start_time + p.timeout_seconds

\* A timer that fires one tick after the deadline.
TimerDue_Late(inv, p) ==
    inv.pc = "waiting" /\ inv.timer = "armed" /\ now > Deadline(inv, p)

TimerDue(inv, p) ==
    inv.pc = "waiting" /\ inv.timer = "armed" /\ now >= Deadline(inv, p)

\* A wait_for that starts the work whatever the timeout and leaves its end
\* to the timer.
EnterWaitFor_RunsFirst(inv, p) ==
    [inv EXCEPT !.pc = "waiting", !.start_time = now,
                !.timer = "armed", !.task = "running"]

\* An await of the work with no timeout given: no timer is armed.
EnterWaitFor_NoTimer(inv, p) ==
    IF p.timeout_seconds <= 0
    THEN [inv EXCEPT !.pc = "timedout", !.start_time = now, !.cause = "deadline",
                     !.task = "cancelled"]
    ELSE [inv EXCEPT !.pc = "waiting", !.start_time = now, !.task = "running"]

\* The invocation as it enters await asyncio.wait_for(...).
EnterWaitFor(inv, p) ==
    IF p.timeout_seconds <= 0
    THEN [inv EXCEPT !.pc = "timedout", !.start_time = now, !.cause = "deadline",
                     !.task = "cancelled"]
    ELSE [inv EXCEPT !.pc = "waiting", !.start_time = now,
                     !.timer = "armed", !.task = "running"]

\* The invocation as its work returns result inside wait_for: the timer is
\* cancelled and the result handed on.
WorkReturned(inv, result) ==
    [inv EXCEPT !.work = result, !.timer = "cancelled", !.task = "done"]

\* The invocation as its work raises error inside wait_for: only
\* asyncio.TimeoutError is caught.
WorkRaised(inv, error) ==
    IF error = "TimeoutError"
    THEN [inv EXCEPT !.pc = "timedout", !.cause = "work_error",
                     !.timer = "cancelled", !.task = "failed"]
    ELSE [inv EXCEPT !.pc = "raised", !.exc = error,
                     !.timer = "cancelled", !.task = "failed"]

\* A wait_for that raises TimeoutError and leaves the work running.
TimedOut_WorkLeftRunning(inv, cancellation) ==
    [inv EXCEPT !.pc = "timedout", !.cause = "deadline", !.timer = "fired",
                !.cancellation = cancellation]

\* A wait_for that raises TimeoutError whatever the cancelled work raised.
TimedOut_LateErrorDropped(inv, cancellation) ==
    [inv EXCEPT !.pc = "timedout", !.cause = "deadline", !.timer = "fired",
                !.task = "cancelled", !.cancellation = cancellation]

\* The invocation as wait_for's timer fires: the work is cancelled and
\* awaited; wait_for raises TimeoutError if the work ended with
\* CancelledError, and lets through what the work raised instead.
TimedOut(inv, cancellation) ==
    IF cancellation = "CancelledError"
    THEN [inv EXCEPT !.pc = "timedout", !.cause = "deadline", !.timer = "fired",
                     !.task = "cancelled", !.cancellation = cancellation]
    ELSE [inv EXCEPT !.pc = "raised", !.cause = "deadline", !.timer = "fired",
                     !.task = "failed", !.cancellation = cancellation,
                     !.exc = cancellation]

\* A wrapper that takes a cancellation from outside for its own timeout.
Cancelled_TakenForTimeout(inv) ==
    [inv EXCEPT !.pc = "timedout", !.cause = "deadline", !.timer = "cancelled",
                !.task = "cancelled"]

\* The invocation as the task it runs in is cancelled from outside: the
\* CancelledError passes through wait_for, which cancels its timer and work.
Cancelled(inv) ==
    [inv EXCEPT !.pc = "cancelled", !.timer = "cancelled", !.task = "cancelled"]

\* One entry of calls: which entry point's except block called which
\* responder with which elapsed time, whether a custom handler called with
\* them raises, and the response the except block got.
ResponderCall(by, process_time, raises, responded) ==
    [by |-> by, kind |-> responded.responder, process_time |-> process_time,
     raises |-> raises, ret |-> responded.response]

\* The invocation as its except block ends: with the response the responder
\* returned, or with the error the responder raised.
ExceptBlock(inv, responded) ==
    IF "raised" \in DOMAIN responded.response
    THEN [inv EXCEPT !.pc = "raised", !.exc = responded.response.raised]
    ELSE [inv EXCEPT !.pc = "returned", !.outcome = "Expired",
                     !.ret = responded.response]

StartMessage(response, by) ==
    [type |-> "http.response.start", status |-> response.status, by |-> by]

BodyMessage(response, by) ==
    [type |-> "http.response.body", body |-> response.body, by |-> by]

\* if scope["type"] != "http": the test that decides whether a timer is armed.
IsHttp_AnyScope(scope_type) == TRUE

IsHttp(scope_type) == scope_type = "http"

\* ------------------------------------------- TimeoutMiddleware.__call__
MiddlewareCall(r, scope_type) ==
    /\ phase = "serving"
    /\ middleware # None
    /\ mw[r].pc = "idle"
    /\ IF ~ IsHttp(scope_type)
       THEN /\ mw' = [mw EXCEPT ![r] = [@ EXCEPT !.pc = "forwarding", !.scope_type = scope_type]]
            /\ app' = [app EXCEPT ![r].pc = "other"]
       ELSE /\ mw' = [mw EXCEPT ![r] = [EnterWaitFor(@, middleware) EXCEPT !.scope_type = scope_type]]
            /\ app' = [app EXCEPT ![r].pc = IF middleware.timeout_seconds <= 0
                                            THEN "cancelled" ELSE "routing"]
    /\ UNCHANGED <<config, now, fn, dec, sent, calls>>

\* await self.app(scope, receive, send) returns for a non-http scope
MiddlewareForwardReturn(r) ==
    /\ mw[r].pc = "forwarding"
    /\ app[r].pc = "other"
    /\ app' = [app EXCEPT ![r].pc = "complete"]
    /\ mw' = [mw EXCEPT ![r] = [@ EXCEPT !.pc = "returned", !.outcome = "Forwarded"]]
    /\ UNCHANGED <<config, now, fn, dec, sent, calls>>

\* A __call__ that rewrites a field of self on its way out.
MiddlewareReturn_WritesPolicy(r) ==
    /\ mw[r].pc = "waiting"
    /\ app[r].pc = "finished"
    /\ app' = [app EXCEPT ![r].pc = "complete"]
    /\ mw' = [mw EXCEPT ![r] = [WorkReturned(@, app[r].response)
                                  EXCEPT !.pc = "returned", !.outcome = "Completed"]]
    /\ middleware' = [middleware EXCEPT !.timeout_seconds = @ - (now - mw[r].start_time)]
    /\ UNCHANGED <<phase, function_mw, decorated, setupError, now, fn, dec, sent, calls>>

\* self.app(...) returns inside wait_for, and __call__ returns after it
MiddlewareReturn(r) ==
    /\ mw[r].pc = "waiting"
    /\ app[r].pc = "finished"
    /\ app' = [app EXCEPT ![r].pc = "complete"]
    /\ mw' = [mw EXCEPT ![r] = [WorkReturned(@, app[r].response)
                                  EXCEPT !.pc = "returned", !.outcome = "Completed"]]
    /\ UNCHANGED <<config, now, fn, dec, sent, calls>>

\* self.app(...) raises inside wait_for
MiddlewareWorkRaised(r) ==
    /\ mw[r].pc = "waiting"
    /\ app[r].pc = "failed"
    /\ mw' = [mw EXCEPT ![r] = WorkRaised(@, app[r].exc)]
    /\ UNCHANGED <<config, now, fn, dec, app, sent, calls>>

\* wait_for's timer fires: the application task is cancelled, and with it
\* whatever it awaits (a wrapper inside its own wait_for is cancelled, not
\* timed out).  A task that has raised already is done: wait_for hands its
\* error on (MiddlewareWorkRaised).
MiddlewareDeadline(r, cancellation) ==
    /\ TimerDue(mw[r], middleware)
    /\ app[r].pc # "failed"
    /\ mw' = [mw EXCEPT ![r] = TimedOut(@, cancellation)]
    /\ app' = [app EXCEPT ![r] =
                 IF mw'[r].task = "running" THEN @
                 ELSE IF mw'[r].task = "failed"
                      THEN [@ EXCEPT !.pc = "failed", !.exc = cancellation]
                      ELSE [@ EXCEPT !.pc = "cancelled"]]
    /\ dec' = [dec EXCEPT ![r] =
                 IF @.pc \in {"waiting", "timedout"} /\ mw'[r].task # "running"
                 THEN Cancelled(@) ELSE @]
    /\ UNCHANGED <<config, now, fn, sent, calls>>

\* except asyncio.TimeoutError: build the response and send it
MiddlewareExpire(r, latency, raises) ==
    /\ mw[r].pc = "timedout"
    /\ raises => middleware.custom_timeout_handler # NoneStr
    /\ LET process_time == ProcessTime(mw[r].start_time, latency)
           request == TheRequest
           responded == MiddlewareTimeoutResponse(middleware, request, process_time, raises)
           response == responded.response
       IN  /\ calls' = [calls EXCEPT ![r] = Append(@, ResponderCall("middleware", process_time, raises, responded))]
           /\ mw' = [mw EXCEPT ![r] = ExceptBlock(@, responded)]
           /\ sent' = [sent EXCEPT ![r] =
                         IF mw'[r].pc = "raised" THEN @
                         ELSE @ \o <<StartMessage(response, "middleware"),
                                     BodyMessage(response, "middleware")>>]
    /\ UNCHANGED <<config, now, fn, dec, app>>

\* ---------------------------------------- _timeout_middleware_function
\* middleware_decorator(request, call_next), up to the await
FunctionCall(r) ==
    /\ phase = "serving"
    /\ function_mw # None
    /\ fn[r].pc = "idle"
    /\ fn' = [fn EXCEPT ![r] = [EnterWaitFor(@, function_mw) EXCEPT !.request = TheRequest]]
    /\ UNCHANGED <<config, now, mw, dec, app, sent, calls>>

\* call_next(request) returns a response: return response
FunctionReturn(r, result) ==
    /\ fn[r].pc = "waiting"
    /\ fn' = [fn EXCEPT ![r] = [WorkReturned(@, result)
                                  EXCEPT !.pc = "returned", !.outcome = "Completed",
                                         !.ret = FunctionResult(result)]]
    /\ UNCHANGED <<config, now, mw, dec, app, sent, calls>>

\* call_next(request) raises
FunctionWorkRaised(r, error) ==
    /\ fn[r].pc = "waiting"
    /\ fn' = [fn EXCEPT ![r] = WorkRaised(@, error)]
    /\ UNCHANGED <<config, now, mw, dec, app, sent, calls>>

\* wait_for's timer fires: call_next is cancelled
FunctionDeadline(r, cancellation) ==
    /\ TimerDue(fn[r], function_mw)
    /\ fn' = [fn EXCEPT ![r] = TimedOut(@, cancellation)]
    /\ UNCHANGED <<config, now, mw, dec, app, sent, calls>>

\* except asyncio.TimeoutError: return the timeout response
FunctionExpire(r, latency, raises) ==
    /\ fn[r].pc = "timedout"
    /\ raises => function_mw.custom_timeout_handler # NoneStr
    /\ LET process_time == ProcessTime(fn[r].start_time, latency)
           responded == FunctionTimeoutResponse(function_mw, fn[r].request, process_time, raises)
       IN  /\ calls' = [calls EXCEPT ![r] = Append(@, ResponderCall("function", process_time, raises, responded))]
           /\ fn' = [fn EXCEPT ![r] = ExceptBlock(@, responded)]
    /\ UNCHANGED <<config, now, mw, dec, app, sent>>

\* ------------------------------------------------ the application
\* The server calls the application itself when no middleware is registered.
AppCall(r) ==
    /\ phase = "serving"
    /\ middleware = None
    /\ function_mw = None
    /\ app[r].pc = "idle"
    /\ app' = [app EXCEPT ![r].pc = "routing"]
    /\ UNCHANGED <<config, now, mw, fn, dec, sent, calls>>

\* The router calls an endpoint that is not wrapped.
EndpointCall(r) ==
    /\ app[r].pc = "routing"
    /\ decorated = None
    /\ app' = [app EXCEPT ![r].pc = "endpoint"]
    /\ UNCHANGED <<config, now, mw, fn, dec, sent, calls>>

\* An endpoint that is not wrapped returns.
EndpointReturn(r, result) ==
    /\ app[r].pc = "endpoint"
    /\ decorated = None
    /\ app' = [app EXCEPT ![r] = [@ EXCEPT !.pc = "responding", !.response = result]]
    /\ UNCHANGED <<config, now, mw, fn, dec, sent, calls>>

\* An endpoint that is not wrapped raises.
EndpointRaise(r, error) ==
    /\ app[r].pc = "endpoint"
    /\ decorated = None
    /\ app' = [app EXCEPT ![r] = [@ EXCEPT !.pc = "failed", !.exc = error]]
    /\ UNCHANGED <<config, now, mw, fn, dec, sent, calls>>

\* The application sends http.response.start.
AppSendStart(r) ==
    /\ app[r].pc = "responding"
    /\ sent' = [sent EXCEPT ![r] = Append(@, StartMessage(app[r].response, "app"))]
    /\ app' = [app EXCEPT ![r].pc = "started"]
    /\ UNCHANGED <<config, now, mw, fn, dec, calls>>

\* The application sends http.response.body.
AppSendBody(r) ==
    /\ app[r].pc = "started"
    /\ sent' = [sent EXCEPT ![r] = Append(@, BodyMessage(app[r].response, "app"))]
    /\ app' = [app EXCEPT ![r].pc = "finished"]
    /\ UNCHANGED <<config, now, mw, fn, dec, calls>>

\* The application returns to the server (no TimeoutMiddleware around it).
AppComplete(r) ==
    /\ app[r].pc = "finished"
    /\ middleware = None
    /\ app' = [app EXCEPT ![r].pc = "complete"]
    /\ UNCHANGED <<config, now, mw, fn, dec, sent, calls>>

\* ------------------------------------------- timeout.decorator.wrapper
\* The router calls the wrapped endpoint: wrapper(*args, **kwargs) up to the await
WrapperCall(r, args, kwargs) ==
    /\ app[r].pc = "routing"
    /\ decorated # None
    /\ dec[r].pc = "idle"
    /\ dec' = [dec EXCEPT ![r] = [EnterWaitFor(@, decorated)
                                    EXCEPT !.request = LocateRequest(args, kwargs),
                                           !.call = Arguments(args, kwargs),
                                           !.func_call = FuncCall(args, kwargs)]]
    /\ app' = [app EXCEPT ![r].pc = "endpoint"]
    /\ UNCHANGED <<config, now, mw, fn, sent, calls>>

\* func(*args, **kwargs) returns inside wait_for: return result
WrapperReturn(r, result) ==
    /\ dec[r].pc = "waiting"
    /\ app[r].pc = "endpoint"
    /\ dec' = [dec EXCEPT ![r] = [WorkReturned(@, result)
                                    EXCEPT !.pc = "returned", !.outcome = "Completed",
                                           !.ret = WrapperResult(result)]]
    /\ app' = [app EXCEPT ![r] = [@ EXCEPT !.pc = "responding", !.response = WrapperResult(result)]]
    /\ UNCHANGED <<config, now, mw, fn, sent, calls>>

\* func(*args, **kwargs) raises inside wait_for
WrapperWorkRaised(r, error) ==
    /\ dec[r].pc = "waiting"
    /\ app[r].pc = "endpoint"
    /\ dec' = [dec EXCEPT ![r] = WorkRaised(@, error)]
    /\ app' = [app EXCEPT ![r] = IF dec'[r].pc = "raised"
                                 THEN [@ EXCEPT !.pc = "failed", !.exc = error] ELSE @]
    /\ UNCHANGED <<config, now, mw, fn, sent, calls>>

\* wait_for's timer fires: the endpoint is cancelled
WrapperDeadline(r, cancellation) ==
    /\ TimerDue(dec[r], decorated)
    /\ app[r].pc = "endpoint"
    /\ dec' = [dec EXCEPT ![r] = TimedOut(@, cancellation)]
    /\ app' = [app EXCEPT ![r] = IF dec'[r].pc = "raised"
                                 THEN [@ EXCEPT !.pc = "failed", !.exc = dec'[r].exc] ELSE @]
    /\ UNCHANGED <<config, now, mw, fn, sent, calls>>

\* except asyncio.TimeoutError: return the timeout response to the router
WrapperExpire(r, latency, raises) ==
    /\ dec[r].pc = "timedout"
    /\ app[r].pc = "endpoint"
    /\ raises => decorated.custom_timeout_handler # NoneStr /\ dec[r].request # None
    /\ LET process_time == ProcessTime(dec[r].start_time, latency)
           responded == WrapperTimeoutResponse(decorated, dec[r].request, process_time, raises)
       IN  /\ calls' = [calls EXCEPT ![r] = Append(@, ResponderCall("wrapper", process_time, raises, responded))]
           /\ dec' = [dec EXCEPT ![r] = ExceptBlock(@, responded)]
           /\ app' = [app EXCEPT ![r] =
                        IF dec'[r].pc = "raised"
                        THEN [@ EXCEPT !.pc = "failed", !.exc = dec'[r].exc]
                        ELSE [@ EXCEPT !.pc = "responding", !.response = dec'[r].ret]]
    /\ UNCHANGED <<config, now, mw, fn, sent>>

\* ------------------------------------------------------------ the clock
\* Something is suspended at an await that takes time.
Awaiting ==
    \E r \in Requests :
        \/ app[r].pc \in {"routing", "started", "finished", "other"}
        \/ app[r].pc = "endpoint" /\ (decorated = None \/ dec[r].pc = "waiting")
        \/ fn[r].pc = "waiting"

\* A step the event loop runs before it lets time pass: a due timer's
\* callback, an except block, an error on its way out.
Urgent ==
    \E r \in Requests :
        \/ TimerDue(mw[r], middleware)
        \/ TimerDue(fn[r], function_mw)
        \/ TimerDue(dec[r], decorated)
        \/ mw[r].pc = "timedout" \/ fn[r].pc = "timedout" \/ dec[r].pc = "timedout"

Tick ==
    /\ phase = "serving"
    /\ now < MaxTime
    /\ Awaiting
    /\ ~Urgent
    /\ now' = now + 1
    /\ UNCHANGED <<config, mw, fn, dec, app, sent, calls>>

\* ------------------------------------------------------- the next requests
\* The server is done with a request: the outermost entry point has returned
\* or raised.
Finished(r) ==
    IF middleware # None THEN mw[r].pc \in {"returned", "raised"}
    ELSE IF function_mw # None THEN fn[r].pc \in {"returned", "raised"}
    ELSE app[r].pc \in {"complete", "failed"}

Started(r) == mw[r].pc # "idle" \/ fn[r].pc # "idle" \/ app[r].pc # "idle"

\* The requests in flight are over and the server takes the next ones: their
\* frames are gone, and the clock is read from the moment they arrive.
ServeNext ==
    /\ phase = "serving"
    /\ \E r \in Requests : Started(r)
    /\ \A r \in Requests : Started(r) => Finished(r)
    /\ now' = 0
    /\ mw' = [r \in Requests |-> Idle]
    /\ fn' = [r \in Requests |-> Idle]
    /\ dec' = [r \in Requests |-> Idle]
    /\ app' = [r \in Requests |-> AppIdle]
    /\ sent' = [r \in Requests |-> << >>]
    /\ calls' = [r \in Requests |-> << >>]
    /\ UNCHANGED config

\* ---------------------------------------------------------- specification
\* One step of the request r.
Serving(r) ==
    \/ \E scope_type \in ScopeTypes : MiddlewareCall(r, scope_type)
    \/ MiddlewareForwardReturn(r)
    \/ MiddlewareReturn(r)
    \/ MiddlewareWorkRaised(r)
    \/ \E cancellation \in Cancellations : MiddlewareDeadline(r, cancellation)
    \/ \E latency \in Latencies, raises \in BOOLEAN : MiddlewareExpire(r, latency, raises)
    \/ FunctionCall(r)
    \/ \E result \in EndpointResults : FunctionReturn(r, result)
    \/ \E error \in WorkErrors : FunctionWorkRaised(r, error)
    \/ \E cancellation \in Cancellations : FunctionDeadline(r, cancellation)
    \/ \E latency \in Latencies, raises \in BOOLEAN : FunctionExpire(r, latency, raises)
    \/ AppCall(r)
    \/ EndpointCall(r)
    \/ \E result \in EndpointResults : EndpointReturn(r, result)
    \/ \E error \in WorkErrors : EndpointRaise(r, error)
    \/ AppSendStart(r)
    \/ AppSendBody(r)
    \/ AppComplete(r)
    \/ \E call \in EndpointCalls : WrapperCall(r, call.args, call.kwargs)
    \/ \E result \in EndpointResults : WrapperReturn(r, result)
    \/ \E error \in WorkErrors : WrapperWorkRaised(r, error)
    \/ \E cancellation \in Cancellations : WrapperDeadline(r, cancellation)
    \/ \E latency \in Latencies, raises \in BOOLEAN : WrapperExpire(r, latency, raises)

Next ==
    \/ \E ts \in Durations, sm \in StatusAndMessage, inc \in BOOLEAN, h \in TimeoutHandlers :
            \/ TimeoutMiddlewareInit(ts, sm.status, sm.message, inc, h)
            \/ TimeoutMiddlewareFunction(ts, sm.status, sm.message, inc, h)
            \/ TimeoutDecorator(ts, sm.status, sm.message, inc, h)
    \/ Serve
    \/ \E r \in OneAtATime : Serving(r)
    \/ Tick
    \/ ServeNext

Spec == Init /\ [][Next]_vars

\* One step of the request r when requests are in flight together: an http
\* request whose endpoint takes the Request as request and returns 200, and
\* whose timeout response is built without scheduling latency.
ServingConcurrently(r) ==
    \/ MiddlewareCall(r, "http")
    \/ MiddlewareReturn(r)
    \/ MiddlewareWorkRaised(r)
    \/ \E cancellation \in Cancellations : MiddlewareDeadline(r, cancellation)
    \/ MiddlewareExpire(r, 0, FALSE)
    \/ FunctionCall(r)
    \/ \E result \in {x \in EndpointResults : x.status = HTTP_200_OK} : FunctionReturn(r, result)
    \/ \E error \in WorkErrors : FunctionWorkRaised(r, error)
    \/ \E cancellation \in Cancellations : FunctionDeadline(r, cancellation)
    \/ FunctionExpire(r, 0, FALSE)
    \/ AppCall(r)
    \/ EndpointCall(r)
    \/ \E result \in {x \in EndpointResults : x.status = HTTP_200_OK} : EndpointReturn(r, result)
    \/ \E error \in WorkErrors : EndpointRaise(r, error)
    \/ AppSendStart(r)
    \/ AppSendBody(r)
    \/ AppComplete(r)
    \/ WrapperCall(r, << >>, [name \in {"request"} |-> TheRequest])
    \/ \E result \in {x \in EndpointResults : x.status = HTTP_200_OK} : WrapperReturn(r, result)
    \/ \E error \in WorkErrors : WrapperWorkRaised(r, error)
    \/ \E cancellation \in Cancellations : WrapperDeadline(r, cancellation)
    \/ WrapperExpire(r, 0, FALSE)

\* Requests in flight together, each in a task of its own, sent to one
\* registration that keeps the constructor's defaults and a positive timeout.
NextConcurrent ==
    \/ \E ts \in 1..MaxDuration :
            /\ middleware = None /\ function_mw = None /\ decorated = None
            /\ \/ TimeoutMiddlewareInit(ts, HTTP_504_GATEWAY_TIMEOUT, "Request processing time exceeded limit", TRUE, NoneStr)
               \/ TimeoutMiddlewareFunction(ts, HTTP_504_GATEWAY_TIMEOUT, "Request processing time exceeded limit", TRUE, NoneStr)
               \/ TimeoutDecorator(ts, HTTP_504_GATEWAY_TIMEOUT, "Request processing time exceeded limit", TRUE, NoneStr)
    \/ Serve
    \/ \E r \in Requests : ServingConcurrently(r)
    \/ Tick
    \/ ServeNext

SpecConcurrent == Init /\ [][NextConcurrent]_vars

\* A request arrives: an http request.
Arrives(r) ==
    \/ MiddlewareCall(r, "http")
    \/ FunctionCall(r)
    \/ AppCall(r)

\* One step of a request whose work never completes by itself and honours
\* cancellation: the endpoint does not return or raise, call_next does not
\* return or raise, the cancelled work ends with CancelledError, and the
\* custom handler returns.
HangingWork(r) ==
    \/ MiddlewareReturn(r)
    \/ MiddlewareDeadline(r, "CancelledError")
    \/ \E latency \in Latencies : MiddlewareExpire(r, latency, FALSE)
    \/ FunctionDeadline(r, "CancelledError")
    \/ \E latency \in Latencies : FunctionExpire(r, latency, FALSE)
    \/ EndpointCall(r)
    \/ AppSendStart(r)
    \/ AppSendBody(r)
    \/ AppComplete(r)
    \/ \E call \in EndpointCalls : WrapperCall(r, call.args, call.kwargs)
    \/ WrapperDeadline(r, "CancelledError")
    \/ \E latency \in Latencies : WrapperExpire(r, latency, FALSE)

NextHanging ==
    \/ \E ts \in 1..MaxDuration, sm \in StatusAndMessage, inc \in BOOLEAN, h \in TimeoutHandlers :
            \/ TimeoutMiddlewareInit(ts, sm.status, sm.message, inc, h)
            \/ TimeoutMiddlewareFunction(ts, sm.status, sm.message, inc, h)
            \/ TimeoutDecorator(ts, sm.status, sm.message, inc, h)
    \/ Serve
    \/ \E r \in OneAtATime : Arrives(r)
    \/ \E r \in OneAtATime : HangingWork(r)
    \/ Tick
    \/ ServeNext

\* The event loop runs what is ready (a due timer's callback, a task that can
\* take its next step) and lets time pass when nothing is.
SpecHanging ==
    /\ Init
    /\ [][NextHanging]_vars
    /\ WF_vars(Tick)
    /\ WF_vars(\E r \in OneAtATime : HangingWork(r))


\* One step of a request to a wrapped endpoint that is called in every way:
\* with up to MaxArgs positional arguments, Requests among them or not, and
\* Requests under the keyword names.
LookingUp(r) ==
    \/ AppCall(r)
    \/ \E call \in AllCalls : WrapperCall(r, call.args, call.kwargs)
    \/ \E result \in {x \in EndpointResults : x.status = HTTP_200_OK} : WrapperReturn(r, result)
    \/ WrapperDeadline(r, "CancelledError")
    \/ WrapperExpire(r, 0, FALSE)
    \/ AppSendStart(r)
    \/ AppSendBody(r)
    \/ AppComplete(r)

\* A wrapper with or without a custom handler, and nothing else registered.
NextLookup ==
    \/ \E ts \in 1..MaxDuration, h \in TimeoutHandlers :
            /\ middleware = None
            /\ TimeoutDecorator(ts, HTTP_504_GATEWAY_TIMEOUT, "Request processing time exceeded limit", TRUE, h)
    \/ Serve
    \/ \E r \in OneAtATime : LookingUp(r)
    \/ Tick
    \/ ServeNext

SpecLookup == Init /\ [][NextLookup]_vars
\* ================================================================== claims
Layers == {"middleware", "function", "wrapper"}

\* The invocation of an entry point for the request r, and its policy.
Inv(r, l) ==
    IF l = "middleware" THEN mw[r] ELSE IF l = "function" THEN fn[r] ELSE dec[r]

Pol(l) ==
    IF l = "middleware" THEN middleware
    ELSE IF l = "function" THEN function_mw ELSE decorated

CallsBy(r, l) == {i \in DOMAIN calls[r] : calls[r][i].by = l}

SentBy(r, by) == SelectSeq(sent[r], LAMBDA m : m.by = by)

\* The two messages a response is sent as.
ResponseMessages(response, by) ==
    <<StartMessage(response, by), BodyMessage(response, by)>>

Abs(x) == IF x < 0 THEN 0 - x ELSE x

\* C1: every invocation that ends produces exactly one outcome to its caller,
\* the work's own result or the timeout response, never both and never
\* neither: on the send channel for TimeoutMiddleware, as the returned value
\* for the other two.
C1_ExactlyOneOutcome ==
    \A r \in Requests :
        /\ (mw[r].pc = "returned" /\ mw[r].scope_type = "http")
              => ((SentBy(r, "app") # << >>) # (SentBy(r, "middleware") # << >>))
        /\ fn[r].pc = "returned" => ((fn[r].work # None) # (CallsBy(r, "function") # {}))
        /\ dec[r].pc = "returned" => ((dec[r].work # None) # (CallsBy(r, "wrapper") # {}))

\* C2: with a TimeoutMiddleware registered whose duration is shorter than the
\* wrapper's, a request that reached the wrapped handler never gets the
\* global timeout response while the handler is within its own duration.
C2_PerHandlerPolicyGovernsExclusively ==
    \A r \in Requests :
        ~ (/\ middleware # None
           /\ decorated # None
           /\ middleware.timeout_seconds < decorated.timeout_seconds
           /\ dec[r].pc = "cancelled"
           /\ now < Deadline(dec[r], decorated)
           /\ CallsBy(r, "middleware") # {})

\* C3: with a global duration G and a per-handler duration H < G, a handler
\* that has not completed before H yields the per-handler timeout response
\* (status, message and timeout_seconds of the H policy), and no global
\* timeout response is emitted for the request.
C3_ShorterHandlerPolicyWins ==
    \A r \in Requests :
        (/\ middleware # None
         /\ decorated # None
         /\ 0 < decorated.timeout_seconds
         /\ decorated.timeout_seconds < middleware.timeout_seconds
         /\ dec[r].pc # "idle"
         /\ dec[r].work = None
         /\ dec[r].exc = NoneStr
         /\ dec[r].cause # "work_error"
         /\ mw[r].pc = "returned")
        => (/\ dec[r].outcome = "Expired"
            /\ CallsBy(r, "middleware") = {}
            /\ sent[r] = ResponseMessages(dec[r].ret, "app")
            /\ decorated.custom_timeout_handler = NoneStr
                  => /\ dec[r].ret.status = decorated.timeout_status_code
                     /\ dec[r].ret.body.detail = decorated.timeout_message
                     /\ dec[r].ret.body.timeout_seconds = decorated.timeout_seconds)

\* C4: work that completes before the deadline is what the caller gets,
\* unchanged and with its own status; no responder is called for the
\* invocation; and a deadline never pre-empts work before it is due.
C4_CompletedReturnsWorkUnchanged ==
    \A r \in Requests :
        /\ \A l \in Layers :
              /\ Inv(r, l).work # None
                    => /\ Inv(r, l).pc = "returned"
                       /\ Inv(r, l).outcome = "Completed"
                       /\ CallsBy(r, l) = {}
                       /\ l # "middleware" => Inv(r, l).ret = Inv(r, l).work
              /\ Inv(r, l).cause = "deadline"
                    => /\ now >= Deadline(Inv(r, l), Pol(l))
                       /\ Inv(r, l).work = None
        /\ mw[r].work # None => sent[r] = ResponseMessages(mw[r].work, "app")

C4_Witness ==
    \E r \in Requests :
        /\ dec[r].outcome = "Completed"
        /\ now < Deadline(dec[r], decorated)
        /\ dec[r].ret.status # decorated.timeout_status_code
        /\ app[r].pc = "complete"

C6_Rejects408AtConstruction ==
    /\ setupError # None
          => /\ setupError.status = HTTP_408_REQUEST_TIMEOUT
             /\ phase = "config_error"
             /\ \A r \in Requests :
                   /\ mw[r] = Idle /\ fn[r] = Idle /\ dec[r] = Idle /\ app[r] = AppIdle
                   /\ sent[r] = << >>
    /\ phase = "serving" => setupError = None
    /\ \A l \in Layers :
          /\ Pol(l) # None => Pol(l).timeout_status_code # HTTP_408_REQUEST_TIMEOUT
          /\ \A r \in Requests : Inv(r, l).exc # "ValueError"

C6_Witness ==
    /\ setupError # None
    /\ setupError.entry = "timeout"
    /\ middleware # None

\* C7: when an invocation of TimeoutMiddleware or of the function-style
\* middleware expires under a policy with a custom responder (and likewise
\* of the wrapper when it has a request to pass), the response is the custom
\* responder's return value as it is: its own status and body, with the
\* unrounded elapsed time it was given; the default body is not built and
\* the policy's status code, message and include_process_time leave no trace.
C7_CustomResponderVerbatim ==
    \A r \in Requests, l \in Layers :
        (/\ Inv(r, l).outcome = "Expired"
         /\ Pol(l).custom_timeout_handler # NoneStr
         /\ l = "wrapper" => dec[r].request # None)
        => /\ Cardinality(CallsBy(r, l)) = 1
           /\ \A i \in CallsBy(r, l) :
                 /\ calls[r][i].kind = "custom"
                 /\ Inv(r, l).ret = calls[r][i].ret
                 /\ Inv(r, l).ret.body.time = calls[r][i].process_time
           /\ Inv(r, l).ret.status = HTTP_503_SERVICE_UNAVAILABLE
           /\ DOMAIN Inv(r, l).ret.body = {"error", "path", "time"}
           /\ Inv(r, l).ret.body.path = TheRequest.path
           /\ l = "middleware"
                 => SentBy(r, "middleware") = ResponseMessages(mw[r].ret, "middleware")

C7_Witness ==
    \E r \in Requests :
        /\ mw[r].outcome = "Expired"
        /\ mw[r].cause = "deadline"
        /\ middleware.custom_timeout_handler # NoneStr
        /\ middleware.timeout_status_code = HTTP_504_GATEWAY_TIMEOUT
        /\ ~ middleware.include_process_time
        /\ mw[r].ret.body.time > UnitsPerTick

\* C8: a wrapper with a custom responder returns the custom responder's
\* response whenever it expires, however the router passed the request:
\* positionally, by keyword, or not at all.
C8_CustomResponderHoweverRequestIsPassed ==
    \A r \in Requests :
        (/\ dec[r].outcome = "Expired"
         /\ dec[r].cause = "deadline"
         /\ 0 < decorated.timeout_seconds
         /\ decorated.custom_timeout_handler = "custom_handler")
        => /\ \A i \in CallsBy(r, "wrapper") : calls[r][i].kind = "custom"
           /\ dec[r].ret.status = HTTP_503_SERVICE_UNAVAILABLE
           /\ "error" \in DOMAIN dec[r].ret.body

\* C9: a default timeout body has the key processing_time exactly when
\* include_process_time is true, from every entry point; its value is the
\* elapsed time rounded to whole milliseconds (an exact half to the even one).
C9_ProcessingTimeIffIncluded ==
    \A r \in Requests : \A i \in DOMAIN calls[r] :
        calls[r][i].kind = "default"
        => LET body == calls[r][i].ret.body
               elapsed == calls[r][i].process_time
           IN  /\ ("processing_time" \in DOMAIN body) <=> Pol(calls[r][i].by).include_process_time
               /\ "processing_time" \in DOMAIN body
                     => /\ body.processing_time % 10 = 0
                        /\ Abs(body.processing_time - elapsed) <= 5
                        /\ Abs(body.processing_time - elapsed) = 5
                              => (body.processing_time \div 10) % 2 = 0

C9_Witness ==
    \E r \in Requests : \E i \in DOMAIN calls[r] :
        /\ calls[r][i].kind = "default"
        /\ calls[r][i].by = "wrapper"
        /\ "processing_time" \in DOMAIN calls[r][i].ret.body
        /\ calls[r][i].ret.body.processing_time > calls[r][i].process_time

\* C10: a timeout response is produced only when the invocation's own
\* deadline expired; an error the work raises by itself is never turned
\* into one.
C10_OnlyOwnDeadlineExpires ==
    \A r \in Requests, l \in Layers :
        Inv(r, l).outcome = "Expired"
        => /\ Inv(r, l).cause = "deadline"
           /\ now >= Deadline(Inv(r, l), Pol(l))

\* C11: for one http request through TimeoutMiddleware the send channel is
\* monotonic: all its messages come from one path, the application or the
\* timeout response, and http.response.start is sent at most once.
C11_SendChannelMonotonic ==
    \A r \in Requests :
        (middleware # None /\ mw[r].scope_type = "http")
        => /\ \A i, j \in DOMAIN sent[r] : sent[r][i].by = sent[r][j].by
           /\ Cardinality({i \in DOMAIN sent[r] :
                             sent[r][i].type = "http.response.start"}) <= 1

\* C12: once wait_for's timer has fired the work is cancelled: nothing it
\* returned is handed on, and the application sends nothing more on the
\* channel; and once an invocation has returned, raised or been cancelled,
\* with either outcome, its timer is not armed and its work task not running.
C12_Released ==
    \A r \in Requests :
        /\ \A l \in Layers :
              /\ Inv(r, l).pc \in {"returned", "raised", "cancelled"}
                    => /\ Inv(r, l).timer # "armed"
                       /\ Inv(r, l).task # "running"
              /\ Inv(r, l).outcome = "Completed"
                    => Inv(r, l).timer = "cancelled" /\ Inv(r, l).task = "done"
              /\ Inv(r, l).cause = "deadline"
                    => /\ Inv(r, l).task \in {"cancelled", "failed"}
                       /\ Inv(r, l).work = None
                       /\ Inv(r, l).ret \notin EndpointResults
        /\ mw[r].cause = "deadline" => app[r].pc \in {"cancelled", "failed"}

C12_NothingSentAfterDeadline ==
    \A r \in Requests :
        (mw[r].cause = "deadline" /\ mw'[r].cause = "deadline")
        => SentBy(r, "app")' = SentBy(r, "app")

C13_ResponderFailurePropagates ==
    \A r \in Requests, l \in Layers :
        \A i \in CallsBy(r, l) :
            calls[r][i].raises
            => /\ calls[r][i].kind = "custom"
               /\ Cardinality(CallsBy(r, l)) = 1
               /\ Inv(r, l).pc = "raised"
               /\ Inv(r, l).exc = "ResponderError"
               /\ Inv(r, l).ret = None
               /\ Inv(r, l).outcome = NoneStr
               /\ l = "middleware" => SentBy(r, "middleware") = << >>
               /\ l = "wrapper" => app[r].pc = "failed" /\ app[r].exc = "ResponderError"

C13_Witness ==
    \E r \in Requests :
        /\ dec[r].pc = "raised"
        /\ dec[r].exc = "ResponderError"
        /\ dec[r].cause = "deadline"
        /\ mw[r].pc = "raised"
        /\ mw[r].exc = "ResponderError"

\* C14: a scope whose type is not "http" is forwarded to the wrapped
\* application by TimeoutMiddleware and nothing else: no timer is armed and
\* no work task made, no responder is called and no timeout response sent,
\* however long the application runs.
C14_NonHttpPassThrough ==
    \A r \in Requests :
        mw[r].scope_type \notin {NoneStr, "http"}
        => /\ mw[r].pc \in {"forwarding", "returned"}
           /\ mw[r].pc = "forwarding" => app[r].pc = "other"
           /\ mw[r].timer = "unset"
           /\ mw[r].task = "unset"
           /\ mw[r].cause = NoneStr
           /\ mw[r].outcome \in {NoneStr, "Forwarded"}
           /\ mw[r].ret = None
           /\ CallsBy(r, "middleware") = {}
           /\ sent[r] = << >>

C14_Witness ==
    \E r \in Requests :
        /\ mw[r].scope_type = "websocket"
        /\ mw[r].outcome = "Forwarded"
        /\ 0 < middleware.timeout_seconds
        /\ now > mw[r].start_time + middleware.timeout_seconds

\* C15: requests in flight together through one registration do not touch
\* each other: a step of one request leaves every other request's
\* invocations, channel and responder calls as they were; an invocation
\* expires only by its own timer, counted from its own start, or its own
\* work's error, is handed an elapsed time counted from its own start, and
\* is never kept waiting past its own deadline, whatever the other request
\* does.
C15_OwnDeadline ==
    \A r \in Requests, l \in Layers :
        /\ Inv(r, l).pc = "waiting"
              => now <= Inv(r, l).start_time + Pol(l).timeout_seconds
        /\ Inv(r, l).cause = "deadline"
              => now >= Inv(r, l).start_time + Pol(l).timeout_seconds
        /\ Inv(r, l).outcome = "Expired"
              => /\ Inv(r, l).cause \in {"deadline", "work_error"}
                 /\ \A i \in CallsBy(r, l) :
                       /\ calls[r][i].process_time >= 0
                       /\ calls[r][i].process_time
                             < (now - Inv(r, l).start_time + 1) * UnitsPerTick
                       /\ Inv(r, l).cause = "deadline"
                             => calls[r][i].process_time
                                  >= Pol(l).timeout_seconds * UnitsPerTick
        /\ Inv(r, l).outcome = "Completed" => Inv(r, l).cause = NoneStr

OfRequest(r) == <<mw[r], fn[r], dec[r], app[r], sent[r], calls[r]>>

C15_OneRequestPerStep ==
    \A r, q \in Requests :
        (r # q /\ OfRequest(r)' # OfRequest(r) /\ OfRequest(q)' # OfRequest(q))
        => \A s \in Requests : ~ Started(s)'

C15_IndependentOutcomes ==
    [] C15_OwnDeadline /\ [][C15_OneRequestPerStep]_vars

C15_Witness ==
    \E r, q \in Requests :
        /\ Inv(r, "middleware").outcome = "Expired"
        /\ Inv(r, "middleware").cause = "deadline"
        /\ Inv(q, "middleware").outcome = "Completed"
        /\ mw[r].start_time < mw[q].start_time
        /\ mw[q].start_time < Deadline(mw[r], middleware)
        /\ now > Deadline(mw[r], middleware)

\* C16: the deadline is start + duration, fixed when the invocation starts:
\* while an invocation waits, its start time does not move, whatever the
\* work does or sends; no invocation waits past start + duration; and at
\* start + duration the timer can fire however far the work has got.
C16_NeverPastDeadline ==
    \A r \in Requests :
        /\ \A l \in Layers :
              /\ Inv(r, l).pc = "waiting"
                    => /\ Inv(r, l).timer = "armed"
                       /\ now <= Inv(r, l).start_time + Pol(l).timeout_seconds
              /\ Inv(r, l).timer = "fired"
                    => now >= Inv(r, l).start_time + Pol(l).timeout_seconds
        /\ (mw[r].pc = "waiting" /\ app[r].pc # "failed"
              /\ now = mw[r].start_time + middleware.timeout_seconds)
              => ENABLED MiddlewareDeadline(r, "CancelledError")
        /\ (fn[r].pc = "waiting" /\ now = fn[r].start_time + function_mw.timeout_seconds)
              => ENABLED FunctionDeadline(r, "CancelledError")
        /\ (dec[r].pc = "waiting" /\ now = dec[r].start_time + decorated.timeout_seconds)
              => ENABLED WrapperDeadline(r, "CancelledError")

C16_StartNeverMoves ==
    \A r \in Requests, l \in Layers :
        (Inv(r, l).pc = "waiting" /\ Inv(r, l)'.pc # "idle")
        => Inv(r, l)'.start_time = Inv(r, l).start_time

C16_AbsoluteDeadline ==
    [] C16_NeverPastDeadline /\ [][C16_StartNeverMoves]_vars

C16_Witness ==
    \E r \in Requests :
        /\ mw[r].outcome = "Expired"
        /\ mw[r].timer = "fired"
        /\ now = mw[r].start_time + middleware.timeout_seconds
        /\ now = MaxDuration
        /\ Len(SentBy(r, "app")) = 1

\* C17: whenever a timeout responder is called, default or custom, the
\* elapsed time it is handed is at least the policy's duration.
C17_ElapsedAtLeastDuration ==
    \A r \in Requests : \A i \in DOMAIN calls[r] :
        calls[r][i].process_time >= Pol(calls[r][i].by).timeout_seconds * UnitsPerTick

\* C18: a policy is written when its entry point is constructed and never
\* again: once the application serves, no step of any request, completing,
\* expiring, failing or forwarded, and no later request changes a field of
\* any of the three policies.
C18_PolicyNeverWritten ==
    /\ phase = "serving" => UNCHANGED <<middleware, function_mw, decorated>>
    /\ \A l \in Layers : Pol(l) # None => Pol(l)' = Pol(l)

C18_PolicyReadOnly == [][C18_PolicyNeverWritten]_vars

C18_Witness ==
    \E r \in Requests :
        /\ dec[r].outcome = "Completed"
        /\ mw[r].outcome = "Expired"
        /\ middleware.timeout_seconds = MaxDuration

\* C19: an invocation settled at the very instant of its deadline, when the
\* work's completion and the timer were ready together, has exactly one
\* winner: the work's result or the timeout response reaches the caller, not
\* both.  (On the send channel for TimeoutMiddleware, whose work has
\* completed its response; as the returned value for the other two.)
C19_OneWinnerAtTheDeadline ==
    \A r \in Requests :
        /\ (/\ mw[r].pc = "returned"
            /\ mw[r].scope_type = "http"
            /\ 0 < middleware.timeout_seconds
            /\ now = Deadline(mw[r], middleware)
            /\ app[r].response # None
            /\ SentBy(r, "app") = ResponseMessages(app[r].response, "app"))
           => /\ mw[r].outcome = "Completed"
              /\ SentBy(r, "middleware") = << >>
        /\ \A l \in {"function", "wrapper"} :
              (/\ Inv(r, l).pc = "returned"
               /\ 0 < Pol(l).timeout_seconds
               /\ now = Deadline(Inv(r, l), Pol(l)))
              => /\ Inv(r, l).outcome \in {"Completed", "Expired"}
                 /\ (Inv(r, l).work # None) # (CallsBy(r, l) # {})

C22_EventuallyTimeoutResponse ==
    \A r \in OneAtATime, l \in Layers :
        (Inv(r, l).pc = "waiting" /\ Deadline(Inv(r, l), Pol(l)) <= MaxTime)
        ~> (/\ Inv(r, l).pc \in {"returned", "cancelled"}
            /\ \E k \in Layers : Inv(r, k).outcome = "Expired")

C22_Witness ==
    \E r \in OneAtATime :
        /\ dec[r].outcome = "Expired"
        /\ now >= Deadline(dec[r], decorated)
        /\ mw[r].outcome = "Completed"
        /\ now < Deadline(mw[r], middleware)


\* The timeout response of the one algorithm the entry points are said to
\* run: the custom handler's for a policy that has one, else the default
\* body under the configured status.
ExecutorResponse(p, request, process_time) ==
    IF p.custom_timeout_handler # NoneStr
    THEN CustomHandler(request, process_time)
    ELSE JSONResponse(IF p.include_process_time
                      THEN [detail          |-> p.timeout_message,
                            timeout_seconds |-> p.timeout_seconds,
                            processing_time |-> Round3(process_time)]
                      ELSE [detail          |-> p.timeout_message,
                            timeout_seconds |-> p.timeout_seconds],
                      p.timeout_status_code)

\* C23: the three entry points run one timeout algorithm: an invocation
\* that returns (on an http request, with the request available to the
\* wrapper) is Completed exactly when its work returned inside wait_for and
\* Expired otherwise, and the response of an Expired one is the same function
\* of the policy, the request and the elapsed time whichever entry point
\* produced it: same status code, same body fields.
C23_OneTimeoutAlgorithm ==
    \A r \in Requests, l \in Layers :
        LET inv == Inv(r, l)
            p == Pol(l)
        IN  (/\ inv.pc = "returned"
             /\ inv.outcome # "Forwarded"
             /\ (l = "wrapper" => inv.request # None))
            => /\ inv.outcome = (IF inv.work # None THEN "Completed" ELSE "Expired")
               /\ inv.outcome = "Completed"
                     => /\ inv.cause = NoneStr
                        /\ CallsBy(r, l) = {}
               /\ inv.outcome = "Expired"
                     => /\ inv.cause \in {"deadline", "work_error"}
                        /\ Cardinality(CallsBy(r, l)) = 1
                        /\ \A i \in CallsBy(r, l) :
                              inv.ret = ExecutorResponse(p, TheRequest, calls[r][i].process_time)

\* TimeoutMiddleware and a wrapper under equal policies expired for one
\* request after the same elapsed time, with equal responses.
C23_Witness ==
    \E r \in Requests :
        /\ mw[r].outcome = "Expired"
        /\ dec[r].outcome = "Expired"
        /\ middleware = decorated
        /\ dec[r].request # None
        /\ mw[r].ret = dec[r].ret
        /\ "processing_time" \in DOMAIN mw[r].ret.body

\* C24: a duration of zero or less is accepted by all three constructors
\* (only the status code is validated), and an invocation on an http request
\* under such a policy never runs its work: the work is cancelled before it
\* starts, nothing of it is returned or sent, and the invocation returns the
\* timeout response at once, unless the custom handler it calls raises or
\* (for a wrapper) the global timer cancels it first.
C24_AcceptedAtConstruction ==
    \A ts \in Durations, h \in TimeoutHandlers :
        ts <= 0 =>
            /\ (phase = "setup" /\ middleware = None /\ function_mw = None)
                  => ENABLED (/\ TimeoutMiddlewareInit(ts, HTTP_504_GATEWAY_TIMEOUT, "Test timeout", TRUE, h)
                              /\ setupError' = None
                              /\ middleware'.timeout_seconds = ts)
            /\ (phase = "setup" /\ middleware = None /\ function_mw = None /\ decorated = None)
                  => ENABLED (/\ TimeoutMiddlewareFunction(ts, HTTP_504_GATEWAY_TIMEOUT, "Test timeout", TRUE, h)
                              /\ setupError' = None
                              /\ function_mw'.timeout_seconds = ts)
            /\ (phase = "setup" /\ decorated = None /\ function_mw = None)
                  => ENABLED (/\ TimeoutDecorator(ts, HTTP_504_GATEWAY_TIMEOUT, "Test timeout", TRUE, h)
                              /\ setupError' = None
                              /\ decorated'.timeout_seconds = ts)

C24_ExpiresBeforeWorkStarts ==
    \A r \in Requests, l \in Layers :
        LET inv == Inv(r, l)
            p == Pol(l)
        IN  (/\ p # None
             /\ p.timeout_seconds <= 0
             /\ inv.pc # "idle"
             /\ ~ (l = "middleware" /\ inv.scope_type # "http"))
            => /\ inv.pc \in {"timedout", "returned", "raised", "cancelled"}
               /\ inv.task = "cancelled"
               /\ inv.timer # "fired"
               /\ inv.work = None
               /\ inv.cause = "deadline"
               /\ inv.pc = "timedout" => inv.start_time = now
               /\ l = "middleware"
                     => /\ app[r].pc = "cancelled"
                        /\ dec[r].pc = "idle"
                        /\ SentBy(r, "app") = << >>
               /\ inv.pc = "returned"
                     => /\ inv.outcome = "Expired"
                        /\ Cardinality(CallsBy(r, l)) = 1
                        /\ \A i \in CallsBy(r, l) :
                              /\ calls[r][i].ret = inv.ret
                              /\ calls[r][i].process_time < UnitsPerTick
               /\ inv.pc = "raised" => inv.exc = "ResponderError"
               /\ inv.pc = "cancelled" => (l = "wrapper" /\ mw[r].timer = "fired")

C24_ZeroOrNegativeDuration ==
    C24_AcceptedAtConstruction /\ C24_ExpiresBeforeWorkStarts

\* A TimeoutMiddleware with a negative duration has answered a request with
\* its timeout response, the application cancelled before it ran.
C24_Witness ==
    \E r \in Requests :
        /\ middleware # None
        /\ middleware.timeout_seconds < 0
        /\ mw[r].outcome = "Expired"
        /\ mw[r].ret.status = middleware.timeout_status_code
        /\ app[r].pc = "cancelled"
        /\ sent[r] = ResponseMessages(mw[r].ret, "middleware")

\* C25: the wrapper takes for the request the first positional argument that
\* is a Request; only when no positional argument is one, the keyword argument
\* named request; a Request under another keyword name is not located (the
\* request is None, and the custom handler is not called on expiry); and the
\* endpoint is called with the arguments the wrapper was called with.
C25_LookupOrder ==
    \A r \in Requests :
        dec[r].pc # "idle" =>
            LET args == dec[r].call.args
                kwargs == dec[r].call.kwargs
                positional == {i \in DOMAIN args : IsRequest(args[i])}
            IN  /\ positional # {}
                      => \E i \in positional :
                            /\ dec[r].request = args[i]
                            /\ \A j \in 1..(i - 1) : ~ IsRequest(args[j])
                /\ (positional = {} /\ "request" \in DOMAIN kwargs)
                      => dec[r].request = kwargs["request"]
                /\ (positional = {} /\ "request" \notin DOMAIN kwargs)
                      => dec[r].request = None
                /\ dec[r].func_call = dec[r].call
                /\ \A i \in CallsBy(r, "wrapper") :
                      IF decorated.custom_timeout_handler # NoneStr /\ dec[r].request # None
                      THEN /\ calls[r][i].kind = "custom"
                           /\ calls[r][i].ret.body.path = dec[r].request.path
                      ELSE calls[r][i].kind = "default"

\* A wrapper called with a value that is not a Request, then a Request, and
\* other Requests under request and another keyword has expired, and its
\* custom handler was given the positional one.
C25_Witness ==
    \E r \in Requests :
        /\ dec[r].outcome = "Expired"
        /\ dec[r].call.args = <<ItemId, OtherRequest>>
        /\ DOMAIN dec[r].call.kwargs = KeywordNames
        /\ dec[r].call.kwargs["request"] = TheRequest
        /\ decorated.custom_timeout_handler # NoneStr
        /\ dec[r].ret.body.path = OtherRequest.path
        /\ dec[r].func_call.args = <<ItemId, OtherRequest>>
=============================================================================
